---------------------------- MODULE Spec2Model ----------------------------
(***************************************************************************)
(* Minimal-Tab-Sort: a browser extension whose action click sorts the      *)
(* tabs of the focused window: pinned tabs, then tab groups (title         *)
(* descending), then ungrouped tabs, each scope sorted by a key derived    *)
(* from the tab's URL.                                                     *)
(*                                                                         *)
(* The repository holds two variants of the service worker:                *)
(*   "A"  src/unnamed/part_000  (extension / internal buckets)             *)
(*   "B"  src/background.js     (bucket = cleaned URL.host)                *)
(* Both are modelled; the variable `variant` says which one is installed.  *)
(***************************************************************************)
EXTENDS Integers, Sequences, FiniteSets, TLC

(***************************************************************************)
(* Strings.  Addresses, keys and titles are strings; a character is a      *)
(* string of length one.                                                   *)
(***************************************************************************)
Ch(s, i) == SubSeq(s, i, i)

Drop(s, n) == SubSeq(s, n + 1, Len(s))

Take(s, n) == SubSeq(s, 1, n)

HasChar(set, c) == \E i \in 1..Len(set) : Ch(set, i) = c

\* String.prototype.startsWith
StartsWith(s, p) == Len(s) >= Len(p) /\ Take(s, Len(p)) = p

\* position of the first character of s that is in `stops', Len(s)+1 if none
FirstOf(s, stops) ==
  LET hits == {i \in 1..Len(s) : HasChar(stops, Ch(s, i))}
  IN  IF hits = {} THEN Len(s) + 1
      ELSE CHOOSE i \in hits : \A j \in hits : i <= j

\* position of the first character of s that is NOT in `set', Len(s)+1 if none
FirstNotOf(s, set) ==
  LET hits == {i \in 1..Len(s) : ~HasChar(set, Ch(s, i))}
  IN  IF hits = {} THEN Len(s) + 1
      ELSE CHOOSE i \in hits : \A j \in hits : i <= j

LowerAlpha == "abcdefghijklmnopqrstuvwxyz"
UpperAlpha == "ABCDEFGHIJKLMNOPQRSTUVWXYZ"
Digits == "0123456789"

IndexIn(set, c) == CHOOSE i \in 1..Len(set) : Ch(set, i) = c

LowerChar(c) ==
  IF HasChar(UpperAlpha, c) THEN Ch(LowerAlpha, IndexIn(UpperAlpha, c)) ELSE c

\* String.prototype.toLowerCase
ToLowerCase(s) ==
  LET out[i \in 0..Len(s)] ==
        IF i = 0 THEN "" ELSE out[i - 1] \o LowerChar(Ch(s, i))
  IN  out[Len(s)]

(***************************************************************************)
(* The platform's URL parser, `new URL(raw)` with no base, as the service  *)
(* worker's browser (Chromium) runs it.  Domain of the model: printable    *)
(* ASCII addresses without userinfo, port, IP literals, percent escapes,   *)
(* backslashes, dot segments or the file: scheme.  A parse either fails    *)
(* (the constructor throws TypeError) or yields the components the code    *)
(* reads: protocol, host, pathname, search, hash.                          *)
(***************************************************************************)
SchemeChars == LowerAlpha \o UpperAlpha \o Digits \o "+-."

\* schemes parsed with an authority and a canonical path: the WHATWG special
\* schemes and the schemes Chromium registers as standard
StandardSchemes == {"http", "https", "ftp", "ws", "wss", "chrome", "chrome-extension"}

\* characters that make a host invalid (within the model's alphabet)
ForbiddenHostChars == " %:<>@[]^|"

\* leading and trailing spaces are stripped before parsing
TrimLeft(s) == Drop(s, FirstNotOf(s, " ") - 1)

TrimRight(s) ==
  LET keep == {i \in 1..Len(s) : Ch(s, i) # " "}
  IN  IF keep = {} THEN "" ELSE Take(s, CHOOSE i \in keep : \A j \in keep : j <= i)

EncodeSpace(c) == IF c = " " THEN "%20" ELSE c

\* the path / query / fragment percent-encode sets, restricted to the alphabet
EncodeSpaces(s) ==
  LET out[i \in 0..Len(s)] ==
        IF i = 0 THEN "" ELSE out[i - 1] \o EncodeSpace(Ch(s, i))
  IN  out[Len(s)]

UrlFailure == [ok |-> FALSE, protocol |-> "", host |-> "", pathname |-> "",
               search |-> "", hash |-> ""]

BadHost(h) == \E i \in 1..Len(h) : HasChar(ForbiddenHostChars, Ch(h, i))

\* the parsed URL: query and fragment get their separator when not empty
MakeURL(scheme, host, pathname, query, frag) ==
  [ok       |-> TRUE,
   protocol |-> scheme \o ":",
   host     |-> host,
   pathname |-> pathname,
   search   |-> IF query = "" THEN "" ELSE "?" \o EncodeSpaces(query),
   hash     |-> IF frag = "" THEN "" ELSE "#" \o EncodeSpaces(frag)]

\* standard scheme: the host must be there and valid, and is lower-cased;
\* an empty path is "/"
StandardURL(scheme, host, path, query, frag) ==
  IF host = "" \/ BadHost(host) THEN UrlFailure
  ELSE MakeURL(scheme, ToLowerCase(host),
               IF path = "" THEN "/" ELSE EncodeSpaces(path), query, frag)

\* other scheme after "//": an opaque host, the path kept as written
OpaqueHostURL(scheme, host, path, query, frag) ==
  IF BadHost(host) THEN UrlFailure
  ELSE MakeURL(scheme, host, EncodeSpaces(path), query, frag)

\* authority state: the host runs to the first "/", the path is the rest
ParseAuthority(scheme, rest, hostEnd, query, frag) ==
  IF scheme \in StandardSchemes
  THEN StandardURL(scheme, Take(rest, hostEnd - 1), Drop(rest, hostEnd - 1),
                   query, frag)
  ELSE OpaqueHostURL(scheme, Take(rest, hostEnd - 1), Drop(rest, hostEnd - 1),
                     query, frag)

\* what follows "scheme:" up to the query
ParseBody(scheme, body, query, frag) ==
  IF scheme \in StandardSchemes
  THEN \* any run of slashes, then the authority
       ParseAuthority(scheme, Drop(body, FirstNotOf(body, "/") - 1),
                      FirstOf(Drop(body, FirstNotOf(body, "/") - 1), "/"),
                      query, frag)
  ELSE IF StartsWith(body, "//")
  THEN ParseAuthority(scheme, Drop(body, 2), FirstOf(Drop(body, 2), "/"),
                      query, frag)
  ELSE \* no authority: a path, or an opaque path kept as written
       MakeURL(scheme, "",
               IF StartsWith(body, "/") THEN EncodeSpaces(body) ELSE body,
               query, frag)

\* the query starts at the first "?" before the fragment
SplitQuery(scheme, noHash, queryAt, frag) ==
  ParseBody(scheme, Take(noHash, queryAt - 1), Drop(noHash, queryAt), frag)

\* the fragment starts at the first "#"
SplitFragment(scheme, rest, hashAt) ==
  SplitQuery(scheme, Take(rest, hashAt - 1),
             FirstOf(Take(rest, hashAt - 1), "?"), Drop(rest, hashAt))

\* scheme state: a letter, then scheme characters, then ":"; without a
\* scheme (and without a base) the parse fails
ParseScheme(s, schemeEnd) ==
  IF /\ schemeEnd >= 2
     /\ schemeEnd <= Len(s)
     /\ Ch(s, schemeEnd) = ":"
     /\ HasChar(LowerAlpha \o UpperAlpha, Ch(s, 1))
  THEN SplitFragment(ToLowerCase(Take(s, schemeEnd - 1)), Drop(s, schemeEnd),
                     FirstOf(Drop(s, schemeEnd), "#"))
  ELSE UrlFailure

ParseTrimmed(s) == ParseScheme(s, FirstNotOf(s, SchemeChars))

ParseURL(raw) == ParseTrimmed(TrimRight(TrimLeft(raw)))

(***************************************************************************)
(* encodeURIComponent: every character except A-Z a-z 0-9 - _ . ! ~ * '    *)
(* ( ) becomes "%" and the two upper-case hex digits of its code.          *)
(***************************************************************************)
\* printable ASCII in code order, 32..95 and 97..126 (the grave accent, 96,
\* cannot be written in a string here and is outside the alphabet)
AsciiLow == " !\"#$%&'()*+,-./0123456789:;<=>?@ABCDEFGHIJKLMNOPQRSTUVWXYZ[\\]^_"

AsciiHigh == "abcdefghijklmnopqrstuvwxyz{|}~"

Unreserved == LowerAlpha \o UpperAlpha \o Digits \o "-_.!~*'()"

HexDigits == "0123456789ABCDEF"

CharCode(c) ==
  IF HasChar(AsciiLow, c) THEN 31 + IndexIn(AsciiLow, c) ELSE 96 + IndexIn(AsciiHigh, c)

EncodeChar(c) ==
  IF HasChar(Unreserved, c) THEN c
  ELSE "%" \o Ch(HexDigits, (CharCode(c) \div 16) + 1)
           \o Ch(HexDigits, (CharCode(c) % 16) + 1)

encodeURIComponent(s) ==
  LET out[i \in 0..Len(s)] ==
        IF i = 0 THEN "" ELSE out[i - 1] \o EncodeChar(Ch(s, i))
  IN  out[Len(s)]

(***************************************************************************)
(* String.prototype.localeCompare: the root Unicode collation on printable *)
(* ASCII.  Primary level: punctuation and symbols in collation order, then *)
(* digits, then letters without regard to case.  Strings equal at the      *)
(* primary level are decided by case, lower case first.                    *)
(***************************************************************************)
CollationSymbols == " _-,;:!?.'\"()[]{}@*/\\&#%^+<=>|~$0123456789"

PrimaryWeight(c) ==
  IF HasChar(CollationSymbols, c) THEN IndexIn(CollationSymbols, c)
  ELSE Len(CollationSymbols) + IndexIn(LowerAlpha, LowerChar(c))

\* the least element of a set of indices, 0 if there is none
FirstIndex(diff) ==
  IF diff = {} THEN 0 ELSE CHOOSE i \in diff : \A j \in diff : i <= j

\* first index at which a and b differ at the primary level, 0 if none
PrimaryDifference(a, b) ==
  FirstIndex({i \in 1..Len(a) :
                i <= Len(b) /\ PrimaryWeight(Ch(a, i)) # PrimaryWeight(Ch(b, i))})

PrimaryOrder(a, b, i) ==
  IF i = 0
  THEN (IF Len(a) < Len(b) THEN -1 ELSE IF Len(a) > Len(b) THEN 1 ELSE 0)
  ELSE IF PrimaryWeight(Ch(a, i)) < PrimaryWeight(Ch(b, i)) THEN -1 ELSE 1

PrimaryCompare(a, b) == PrimaryOrder(a, b, PrimaryDifference(a, b))

\* first index at which a and b have different characters, 0 if none
CaseDifference(a, b) ==
  FirstIndex({i \in 1..Len(a) : i <= Len(b) /\ Ch(a, i) # Ch(b, i)})

CaseOrder(a, i) ==
  IF i = 0 THEN 0 ELSE IF HasChar(LowerAlpha, Ch(a, i)) THEN -1 ELSE 1

\* for strings equal at the primary level (hence of equal length)
CaseCompare(a, b) == CaseOrder(a, CaseDifference(a, b))

localeCompare(a, b) ==
  LET p == PrimaryCompare(a, b) IN IF p # 0 THEN p ELSE CaseCompare(a, b)

(***************************************************************************)
(* Bounds of the model and the windows it starts from.                     *)
(***************************************************************************)
MaxTabs == 3
MaxGroups == 2
MaxRuns == 2

\* chrome.tabs.TAB_GROUP_ID_NONE, written -1 in the source
NoGroup == -1

GroupIds == 1..MaxGroups

\* Addresses of the tabs of the windows of Spec: [url, pendingUrl]; an absent
\* pendingUrl is "" (as falsy as undefined).
WindowAddresses ==
  { [url |-> "https://www.example.com/a", pendingUrl |-> ""],
    [url |-> "chrome://settings",         pendingUrl |-> ""],
    [url |-> "about:blank",               pendingUrl |-> ""] }

\* Addresses of the single-scope windows of SpecAddr.
ScopeAddresses ==
  WindowAddresses \cup
  { [url |-> "https://example.com/b",          pendingUrl |-> ""],
    [url |-> "https://other.com/x",            pendingUrl |-> ""],
    [url |-> "HTTPS://WWW.Example.COM/a?q#f",  pendingUrl |-> ""],
    [url |-> "chrome-extension://abcdef/popup.html", pendingUrl |-> ""],
    [url |-> "ftp://example.com/pub",          pendingUrl |-> ""],
    [url |-> "not a url",                      pendingUrl |-> ""],
    [url |-> "chrome://bad host",              pendingUrl |-> ""],
    [url |-> "chrome-extension://bad host",    pendingUrl |-> ""],
    [url |-> "about:blank", pendingUrl |-> "https://other.com/x"] }

GroupTitles == {"", "Shopping", "Work"}

(***************************************************************************)
(* State.                                                                  *)
(*   variant     which service worker is installed, "A" or "B"             *)
(*   tabs        the host's tabs: id -> [url, pendingUrl, pinned, groupId] *)
(*   order       the focused window's tab strip: tab ids, left to right;   *)
(*               the tab at order[k] has index k-1                         *)
(*   groupTitle  the host's tab groups: group id -> title                  *)
(*   invs        the invocations of sortAllTabs, in click order; each is   *)
(*               the record of one async call: the host request it is      *)
(*               suspended on (pc) and its local variables                 *)
(***************************************************************************)
VARIABLES variant, tabs, order, groupTitle, invs

vars == <<variant, tabs, order, groupTitle, invs>>

Min(a, b) == IF a < b THEN a ELSE b

\* index (0-based, as the host reports it) of tab t in tab strip o
IndexOf(o, t) == (CHOOSE k \in 1..Len(o) : o[k] = t) - 1

\* the host kept as it is
KeepWww(h) == h

(***************************************************************************)
(* URL classification and key derivation.                                  *)
(***************************************************************************)
\* WWW_RE = /^www\./i, as used in host.replace(WWW_RE, "")
ReplaceWww(h) ==
  IF Len(h) >= 4 /\ ToLowerCase(Take(h, 4)) = "www." THEN Drop(h, 4) ELSE h

\* tab.pendingUrl || tab.url
RawAddress(tab) == IF tab.pendingUrl # "" THEN tab.pendingUrl ELSE tab.url

\* The addresses the program can meet, and what the platform returns for
\* them: each conversion is evaluated once per string.
RawAddresses == {RawAddress(a) : a \in ScopeAddresses}

Encoded == [raw \in RawAddresses |-> encodeURIComponent(raw)]

InvalidPlaceholder(raw) == "http://invalid/" \o Encoded[raw]

InternalPlaceholder(raw) == "http://internal/" \o Encoded[raw]

NewURL ==
  [s \in RawAddresses
         \cup {InvalidPlaceholder(raw) : raw \in RawAddresses}
         \cup {InternalPlaceholder(raw) : raw \in RawAddresses} |-> ParseURL(s)]

\* try { return new URL(raw) } catch { return new URL("http://invalid/" + ...) }
TryParse(raw, u) ==
  IF u.ok THEN [threw |-> FALSE, url |-> u]
  ELSE [threw |-> FALSE, url |-> NewURL[InvalidPlaceholder(raw)]]

\* return new URL(raw) outside any try block: a failed parse is thrown on
Unguarded(u) == [threw |-> ~u.ok, url |-> u]

\* resolveTabUrl of background.js: [threw, url]
resolveTabUrlB(tab) == TryParse(RawAddress(tab), NewURL[RawAddress(tab)])

resolveRawA(raw) ==
  IF StartsWith(raw, "chrome-extension://") THEN Unguarded(NewURL[raw])
  ELSE IF \/ StartsWith(raw, "chrome://")
          \/ StartsWith(raw, "about:")
          \/ StartsWith(raw, "edge://")
          \/ StartsWith(raw, "brave://")
  THEN [threw |-> FALSE, url |-> NewURL[InternalPlaceholder(raw)]]
  ELSE TryParse(raw, NewURL[raw])

\* resolveTabUrl of part_000
resolveTabUrlA(tab) == resolveRawA(RawAddress(tab))

resolveTabUrl(v, tab) == IF v = "A" THEN resolveTabUrlA(tab) ELSE resolveTabUrlB(tab)

\* hostKey of part_000
hostKeyA(url) ==
  IF url.protocol = "chrome-extension:" THEN "ext:" \o url.host
  ELSE IF url.protocol = "http:" \/ url.protocol = "https:"
       THEN ToLowerCase(ReplaceWww(url.host))
       ELSE "internal"

\* cleanHost of background.js
hostKeyB(url) == ToLowerCase(ReplaceWww(url.host))

hostKey(v, url) == IF v = "A" THEN hostKeyA(url) ELSE hostKeyB(url)

\* sortKey (part_000) / key (background.js)
sortKey(v, url) == hostKey(v, url) \o url.pathname \o url.search \o url.hash

Variants == {"A", "B"}

AddressOf(tab) == [url |-> tab.url, pendingUrl |-> tab.pendingUrl]

Classify(v, r) ==
  [threw |-> r.threw, hostKey |-> hostKey(v, r.url), sortKey |-> sortKey(v, r.url)]

\* resolveTabUrl and the two keys, evaluated once per variant and address
Resolved ==
  [v \in Variants |-> [a \in ScopeAddresses |-> Classify(v, resolveTabUrl(v, a))]]

Throws(v, tab) == Resolved[v][AddressOf(tab)].threw

\* the bucket key and sort key of a tab whose address resolves
BucketOf(v, tab) == Resolved[v][AddressOf(tab)].hostKey

KeyOf(v, tab) == Resolved[v][AddressOf(tab)].sortKey

\* localeCompare, evaluated once per pair of the strings the program compares
StringsOf(R) ==
  GroupTitles \cup
  UNION {{R[v][a].hostKey, R[v][a].sortKey} : v \in Variants, a \in ScopeAddresses}

ComparedStrings == StringsOf(Resolved)

Collation ==
  [a \in ComparedStrings |-> [b \in ComparedStrings |-> localeCompare(a, b)]]

\* tabs.map((tab, originalIndex) => ...): ts is the list of tab snapshots
\* the decoration with originalIndex counted from the right
DecorateFromRight(R, ts) ==
  [k \in 1..Len(ts) |->
     [id            |-> ts[k].id,
      originalIndex |-> Len(ts) - k,
      hostKey       |-> R[AddressOf(ts[k])].hostKey,
      sortKey       |-> R[AddressOf(ts[k])].sortKey]]

DecorateWith(R, ts) ==
  [k \in 1..Len(ts) |->
     [id            |-> ts[k].id,
      originalIndex |-> k - 1,
      hostKey       |-> R[AddressOf(ts[k])].hostKey,
      sortKey       |-> R[AddressOf(ts[k])].sortKey]]

Decorate(v, ts) == DecorateWith(Resolved[v], ts)

\* the comparator with ties broken from the right
OrderingReverseTies(h, k, a, b) ==
  IF h # 0 THEN h
  ELSE IF k # 0 THEN k
  ELSE b.originalIndex - a.originalIndex

\* the comparator without its comparison of the sort keys
OrderingNoKey(h, k, a, b) ==
  IF h # 0 THEN h ELSE a.originalIndex - b.originalIndex

\* the comparator handed to decorated.sort: h and k are the results of the
\* two localeCompare calls
Ordering(h, k, a, b) ==
  IF h # 0 THEN h
  ELSE IF k # 0 THEN k
  ELSE a.originalIndex - b.originalIndex

CompareWith(C, a, b) ==
  Ordering(C[a.hostKey][b.hostKey], C[a.sortKey][b.sortKey], a, b)

CompareDecorated(a, b) == CompareWith(Collation, a, b)

\* a comparator that sorts the groups title ascending
CompareGroupsAscending(a, b) == Collation[a.title][b.title]

\* the comparator handed to tabGroups.sort: title descending
CompareGroups(a, b) == Collation[b.title][a.title]

(***************************************************************************)
(* Array.prototype.sort: a stable sort by the comparator (an element is    *)
(* placed after every element that does not compare greater than it).      *)
(***************************************************************************)
\* cmp[a][b] is the comparator's result for the elements a and b
InsertAt(x, s, at) == SubSeq(s, 1, at - 1) \o <<x>> \o SubSeq(s, at, Len(s))

InsertBefore(x, s, later) ==
  InsertAt(x, s, IF later = {} THEN Len(s) + 1
                 ELSE CHOOSE j \in later : \A k \in later : j <= k)

InsertSorted(x, s, cmp) ==
  InsertBefore(x, s, {j \in 1..Len(s) : cmp[s[j]][x] > 0})

ArraySort(s, cmp) ==
  LET sorted[n \in 0..Len(s)] ==
        IF n = 0 THEN <<>> ELSE InsertSorted(s[n], sorted[n - 1], cmp)
  IN  sorted[Len(s)]

Elements(s) == {s[k] : k \in 1..Len(s)}

\* decorated.sort((a, b) => ...)
SortDecorated(d) ==
  ArraySort(d, [a \in Elements(d) |-> [b \in Elements(d) |-> CompareDecorated(a, b)]])

\* tabGroups.sort((a, b) => ...)
SortGroups(gs) ==
  ArraySort(gs, [a \in Elements(gs) |-> [b \in Elements(gs) |-> CompareGroups(a, b)]])

\* decorated.sort(...).map(x => x.id)
\* the ids without the last one
IdsOfAllButLast(d) == [k \in 1..(Len(d) - 1) |-> d[k].id]

IdsOf(d) == [k \in 1..Len(d) |-> d[k].id]

SortedIds(v, ts) == IdsOf(SortDecorated(Decorate(v, ts)))

\* whether resolveTabUrl throws for some tab of the scope
ScopeThrows(v, ts) == \E k \in 1..Len(ts) : Throws(v, ts[k])

\* a start index that ignores where the tabs are
minIndexZero(ts) == 0

\* minIndex(tabs), for a non-empty list
minIndex(ts) ==
  LET m[i \in 1..Len(ts)] ==
        IF i = 1 THEN ts[1].index
        ELSE IF ts[i].index < m[i - 1] THEN ts[i].index ELSE m[i - 1]
  IN  m[Len(ts)]

(***************************************************************************)
(* The host tab-management surface (chrome.windows, chrome.tabs,           *)
(* chrome.tabGroups).  It is not code of the extension: it is modelled     *)
(* from its contract.                                                      *)
(***************************************************************************)
\* what a query returns for tab t
Snapshot(t) ==
  [id |-> t, url |-> tabs[t].url, pendingUrl |-> tabs[t].pendingUrl,
   index |-> IndexOf(order, t), pinned |-> tabs[t].pinned,
   groupId |-> tabs[t].groupId]

\* chrome.tabs.query: the matching tabs of the window, in tab-strip order
Snapshots(ids) == [k \in 1..Len(ids) |-> Snapshot(ids[k])]

TabsWhere(S) == Snapshots(SelectSeq(order, LAMBDA t : t \in S))

QueryPinned == TabsWhere({t \in DOMAIN tabs : tabs[t].pinned})

QueryGroupTabs(g) == TabsWhere({t \in DOMAIN tabs : tabs[t].groupId = g})

QueryUngrouped ==
  TabsWhere({t \in DOMAIN tabs : ~tabs[t].pinned /\ tabs[t].groupId = NoGroup})

\* chrome.tabGroups.query: the window's groups; the same state gives the
\* same answer, here in group-id order
QueryGroups ==
  LET gs  == DOMAIN groupTitle
      nth[k \in 1..Cardinality(gs)] ==
        CHOOSE g \in gs : Cardinality({h \in gs : h < g}) = k - 1
  IN  [k \in 1..Cardinality(gs) |-> [id |-> nth[k], title |-> groupTitle[nth[k]]]]

\* chrome.tabs.move(ids, {index}): the tabs, in the given order, become a
\* contiguous block that begins at index (as far right as the strip allows)
HostTabsMove(o, ids, index) ==
  LET moved(t) == \E k \in 1..Len(ids) : ids[k] = t
      stay(t)  == ~moved(t)
      others   == SelectSeq(o, stay)
      block    == SelectSeq(ids, LAMBDA t : \E k \in 1..Len(o) : o[k] = t)
      at       == Min(index, Len(others))
  IN  SubSeq(others, 1, at) \o block \o SubSeq(others, at + 1, Len(others))

\* chrome.tabGroups.move(g, {index}): the group's tabs, as a block in their
\* current order, begin at index
HostGroupMove(o, tb, g, index) ==
  LET member(t) == tb[t].groupId = g
  IN  HostTabsMove(o, SelectSeq(o, member), index)

\* chrome.tabs.group({groupId, tabIds})
HostTabsGroup(tb, g, ids) ==
  [t \in DOMAIN tb |->
     IF \E k \in 1..Len(ids) : ids[k] = t THEN [tb[t] EXCEPT !.groupId = g]
     ELSE tb[t]]

\* chrome.tabs.update(t, {pinned: true})
HostPin(tb, t) == [tb EXCEPT ![t].pinned = TRUE]

\* a move may leave any of the moved tabs outside its group
HostDropGroup(tb, D) ==
  [t \in DOMAIN tb |-> IF t \in D THEN [tb[t] EXCEPT !.groupId = NoGroup] ELSE tb[t]]

(***************************************************************************)
(* Initial states: a window the browser can show.  Pinned tabs are the     *)
(* leftmost tabs and belong to no group; the tabs of a group are           *)
(* contiguous; every group has a tab.  Tab ids are opaque, so the tab at   *)
(* index k-1 is given id k.                                                *)
(***************************************************************************)
TabKinds == [pinned : BOOLEAN, groupId : {NoGroup} \cup GroupIds]

IsLayout(n, lay) ==
  /\ \A k \in 1..n : lay[k].pinned => lay[k].groupId = NoGroup
  /\ \A k \in 2..n : lay[k].pinned => lay[k - 1].pinned
  /\ \A i, j, k \in 1..n :
       (i < j /\ j < k /\ lay[i].groupId = lay[k].groupId
          /\ lay[i].groupId # NoGroup) => lay[j].groupId = lay[i].groupId
  /\ \A g \in GroupIds :
       (\E k \in 1..n : lay[k].groupId = g) =>
          \A h \in 1..g : \E k \in 1..n : lay[k].groupId = h

Layouts(n) == {lay \in [1..n -> TabKinds] : IsLayout(n, lay)}

UsedGroups(n, lay) == {g \in GroupIds : \E k \in 1..n : lay[k].groupId = g}

\* a request to the host, as the log of an invocation keeps it: its method,
\* the scope it is for, and the group or tab it names (NoGroup if none)
Request(kind, scope, arg) == [kind |-> kind, scope |-> scope, arg |-> arg]

\* the local variables of an invocation that has issued its first request,
\* with the requests it has issued (log), how many of them have resolved or
\* been rejected (settled), and whether the listener has logged a failure
NewInvocation ==
  [pc           |-> "getLastFocused",
   log          |-> <<Request("windows.getLastFocused", "none", NoGroup)>>,
   settled      |-> 0,
   logged       |-> FALSE,
   scope        |-> "none",
   pinnedTabs   |-> <<>>,
   nextPosition |-> 0,
   groupsLeft   |-> <<>>,
   req          |-> [tabIds |-> <<>>, ids |-> <<>>, index |-> 0, groupId |-> NoGroup],
   pendingPins  |-> {},
   pinReqs      |-> {},
   moved        |-> {},
   regrouped    |-> FALSE,
   startOrder   |-> order,
   startTabs    |-> tabs,
   endOrder     |-> <<>>]

InitWith(Addrs, lays) ==
  /\ variant \in Variants
  /\ \E n \in 1..MaxTabs :
       \E lay \in lays[n] :
         \E addr \in [1..n -> Addrs] :
           /\ tabs = [t \in 1..n |->
                        [url |-> addr[t].url, pendingUrl |-> addr[t].pendingUrl,
                         pinned |-> lay[t].pinned, groupId |-> lay[t].groupId]]
           /\ order = [k \in 1..n |-> k]
           /\ groupTitle \in [UsedGroups(n, lay) -> GroupTitles]
  /\ invs = <<>>

Init == InitWith(WindowAddresses, [n \in 1..MaxTabs |-> Layouts(n)])

\* windows whose tabs all belong to one scope
OneScopeLayouts(n) ==
  {lay \in Layouts(n) : \A j, k \in 1..n : lay[j] = lay[k]}

InitAddr == InitWith(ScopeAddresses, [n \in 1..MaxTabs |-> OneScopeLayouts(n)])

(***************************************************************************)
(* sortAllTabs, one action per host request that resolves: the host        *)
(* applies the request and the function runs on to its next await.         *)
(***************************************************************************)
Finished(r) == r.pc \in {"done", "failed", "rejected"}

SeqIds(ts) == [k \in 1..Len(ts) |-> ts[k].id]

IdSet(ids) == Elements(ids)

\* await <request>: the request q is issued and the function is suspended
\* at pc until q settles
Issue(r, pc, q) == [r EXCEPT !.pc = pc, !.log = Append(@, q)]

\* the request the function is suspended on has resolved or been rejected
Settle(r) == [r EXCEPT !.settled = @ + 1]

\* a listener without its catch
CatchNothing(r) == r

\* .catch(err => console.error("Sort failed:", err)) of the listener
Catch(r) == [r EXCEPT !.logged = TRUE]

\* an exception thrown inside sortAllTabs rejects its promise
Throw(r) == Catch([r EXCEPT !.pc = "failed"])

\* an awaited request is rejected: the await throws, sortAllTabs rejects
Reject(r) == Catch([r EXCEPT !.pc = "rejected"])

\* sortTabsScope(ts, startIndex, groupId) up to its await of chrome.tabs.move
\* (ts is not empty); an exception of resolveTabUrl rejects sortAllTabs
StartScope(r, ts, startIndex, groupId, scope) ==
  IF ScopeThrows(variant, ts) THEN Throw(r)
  ELSE Issue([r EXCEPT !.scope = scope,
                       !.req = [tabIds |-> SeqIds(ts), ids |-> SortedIds(variant, ts),
                                index |-> startIndex, groupId |-> groupId],
                       !.moved = @ \cup IdSet(SeqIds(ts))],
             "tabsMove", Request("tabs.move", scope, groupId))

\* return of sortAllTabs
Finish(r, o) == [r EXCEPT !.pc = "done", !.endOrder = o]

\* the loop over tabGroups goes straight on to the ungrouped tabs
SkipGroups(r) ==
  Issue(r, "queryUngrouped", Request("tabs.query", "ungrouped", NoGroup))

\* head of the for loop over tabGroups: the next chrome.tabGroups.move, or
\* the query of the ungrouped tabs
NextGroup(r) ==
  IF r.groupsLeft = <<>>
  THEN Issue(r, "queryUngrouped", Request("tabs.query", "ungrouped", NoGroup))
  ELSE Issue(r, "groupMove",
             Request("tabGroups.move", "group", Head(r.groupsLeft).id))

\* a pin request for every tab of the window
PinEveryTab(r) == DOMAIN r.startTabs

\* a guard that never lets chrome.tabs.group be called
NeverGroup(groupId) == groupId > MaxGroups

\* pinnedTabs.map(t => chrome.tabs.update(t.id, {pinned: true})): the tabs
\* that are sent a pin request
PinTargets(r) == IdSet(r.pinnedTabs)

\* the pin requests, in the order map issues them
PinRequests(r) ==
  [k \in 1..Len(r.pinnedTabs) |-> Request("tabs.update", "pinned", r.pinnedTabs[k])]

\* if (groupId > -1), the guard of chrome.tabs.group
NeedsGroup(groupId) == groupId > -1

\* the cursor left where it was
KeepCursor(nextPosition, n) == nextPosition

\* nextPosition += tabs.length
AdvanceCursor(nextPosition, n) == nextPosition + n

\* await chrome.tabGroups.query after the pinned step
QueryTabGroups(r) ==
  Issue(r, "queryGroups", Request("tabGroups.query", "none", NoGroup))

\* what follows sortTabsScope in sortAllTabs
AfterScope(r, o) ==
  IF r.scope = "pinned"
  THEN [r EXCEPT !.pc = "pinUpdate",
                 !.log = @ \o PinRequests(r),
                 !.pendingPins = PinTargets(r),
                 !.pinReqs = @ \cup PinTargets(r)]
  ELSE IF r.scope = "group"
  THEN NextGroup([r EXCEPT !.nextPosition = AdvanceCursor(@, Len(r.req.tabIds)),
                           !.groupsLeft = Tail(@)])
  ELSE Finish(r, o)

\* chrome.action.onClicked: the listener calls sortAllTabs, which issues
\* chrome.windows.getLastFocused.  Here the icon is clicked when no earlier
\* invocation is still running.
Click ==
  /\ Len(invs) < MaxRuns
  /\ \A i \in 1..Len(invs) : Finished(invs[i])
  /\ invs' = Append(invs, NewInvocation)
  /\ UNCHANGED <<variant, tabs, order, groupTitle>>

GetLastFocusedResolved(i) ==
  /\ invs[i].pc = "getLastFocused"
  /\ invs' = [invs EXCEPT ![i] =
                Issue(Settle(invs[i]), "queryPinned",
                      Request("tabs.query", "pinned", NoGroup))]
  /\ UNCHANGED <<variant, tabs, order, groupTitle>>

\* the pinned tabs are there: nextPosition is set, and the pinned scope is
\* sorted if it is not empty
PinnedStep(r, ts) ==
  IF Len(ts) > 0 THEN StartScope(r, ts, 0, ts[1].groupId, "pinned")
  ELSE QueryTabGroups(r)

QueryPinnedResolved(i) ==
  /\ invs[i].pc = "queryPinned"
  /\ invs' = [invs EXCEPT ![i] =
                PinnedStep([Settle(invs[i]) EXCEPT
                              !.pinnedTabs = SeqIds(QueryPinned),
                              !.nextPosition = Len(QueryPinned)],
                           QueryPinned)]
  /\ UNCHANGED <<variant, tabs, order, groupTitle>>

\* sortTabsScope after its chrome.tabs.move has resolved with the order o
AfterMove(r, o) ==
  IF NeedsGroup(r.req.groupId)
  THEN Issue(r, "tabsGroup", Request("tabs.group", r.scope, r.req.groupId))
  ELSE AfterScope(r, o)

TabsMoveResolved(i) ==
  /\ invs[i].pc = "tabsMove"
  /\ order' = HostTabsMove(order, invs[i].req.ids, invs[i].req.index)
  /\ \E D \in SUBSET {t \in IdSet(invs[i].req.ids) : tabs[t].groupId # NoGroup} :
       tabs' = HostDropGroup(tabs, D)
  /\ invs' = [invs EXCEPT ![i] = AfterMove(Settle(invs[i]), order')]
  /\ UNCHANGED <<variant, groupTitle>>

TabsGroupResolved(i) ==
  /\ invs[i].pc = "tabsGroup"
  /\ tabs' = HostTabsGroup(tabs, invs[i].req.groupId, invs[i].req.ids)
  /\ invs' = [invs EXCEPT ![i] =
                AfterScope([Settle(invs[i]) EXCEPT !.regrouped =
                              @ \/ \E t \in IdSet(invs[i].req.ids) :
                                     tabs[t].groupId # invs[i].req.groupId],
                           order)]
  /\ UNCHANGED <<variant, order, groupTitle>>

\* a step that goes on as soon as one pin request has resolved
AfterFirstPin(r) == QueryTabGroups(r)

\* Promise.all after one more of its requests has resolved: sortAllTabs goes
\* on when none is left
AfterPin(r) == IF r.pendingPins = {} THEN QueryTabGroups(r) ELSE r

\* one of the chrome.tabs.update requests of Promise.all resolves; the last
\* one lets sortAllTabs go on to chrome.tabGroups.query.  The host also
\* carries out the requests that are left when one of them was rejected.
PinUpdateResolved(i, t) ==
  /\ invs[i].pc \in {"pinUpdate", "rejected"}
  /\ t \in invs[i].pendingPins
  /\ tabs' = HostPin(tabs, t)
  /\ invs' = [invs EXCEPT ![i] =
                IF invs[i].pc = "rejected"
                THEN [Settle(invs[i]) EXCEPT !.pendingPins = @ \ {t}]
                ELSE AfterPin([Settle(invs[i]) EXCEPT !.pendingPins = @ \ {t}])]
  /\ UNCHANGED <<variant, order, groupTitle>>

QueryGroupsResolved(i) ==
  /\ invs[i].pc = "queryGroups"
  /\ invs' = [invs EXCEPT ![i] =
                NextGroup([Settle(invs[i]) EXCEPT
                             !.groupsLeft = SortGroups(QueryGroups)])]
  /\ UNCHANGED <<variant, tabs, order, groupTitle>>

GroupMoveResolved(i) ==
  /\ invs[i].pc = "groupMove"
  /\ order' = HostGroupMove(order, tabs, Head(invs[i].groupsLeft).id,
                            invs[i].nextPosition)
  /\ invs' = [invs EXCEPT ![i] =
                Issue(Settle(invs[i]), "queryGroupTabs",
                      Request("tabs.query", "group", Head(invs[i].groupsLeft).id))]
  /\ UNCHANGED <<variant, tabs, groupTitle>>

\* the tabs of the group are there: the group is sorted if it is not empty
GroupStep(r, g, ts) ==
  IF Len(ts) > 0 THEN StartScope(r, ts, minIndex(ts), g, "group")
  ELSE NextGroup([r EXCEPT !.groupsLeft = Tail(@)])

QueryGroupTabsResolved(i) ==
  /\ invs[i].pc = "queryGroupTabs"
  /\ invs' = [invs EXCEPT ![i] =
                GroupStep(Settle(invs[i]), Head(invs[i].groupsLeft).id,
                          QueryGroupTabs(Head(invs[i].groupsLeft).id))]
  /\ UNCHANGED <<variant, tabs, order, groupTitle>>

\* the ungrouped tabs are there: they are sorted if there are any
UngroupedStep(r, ts, o) ==
  IF Len(ts) > 0 THEN StartScope(r, ts, minIndex(ts), NoGroup, "ungrouped")
  ELSE Finish(r, o)

QueryUngroupedResolved(i) ==
  /\ invs[i].pc = "queryUngrouped"
  /\ invs' = [invs EXCEPT ![i] = UngroupedStep(Settle(invs[i]), QueryUngrouped, order)]
  /\ UNCHANGED <<variant, tabs, order, groupTitle>>

\* the request that invocation i is suspended on is rejected by the host,
\* which leaves the window as it is
RequestRejected(i) ==
  /\ ~Finished(invs[i])
  /\ invs[i].pc # "pinUpdate"
  /\ invs' = [invs EXCEPT ![i] = Reject(Settle(invs[i]))]
  /\ UNCHANGED <<variant, tabs, order, groupTitle>>

\* one of the chrome.tabs.update requests is rejected: Promise.all rejects
\* at once, the other requests stay with the host
PinUpdateRejected(i, t) ==
  /\ invs[i].pc = "pinUpdate"
  /\ t \in invs[i].pendingPins
  /\ invs' = [invs EXCEPT ![i] =
                Reject([Settle(invs[i]) EXCEPT !.pendingPins = @ \ {t}])]
  /\ UNCHANGED <<variant, tabs, order, groupTitle>>

\* chrome.action.onClicked while an earlier invocation may be suspended: the
\* listener has no guard
ClickAnyTime ==
  /\ Len(invs) < MaxRuns
  /\ invs' = Append(invs, NewInvocation)
  /\ UNCHANGED <<variant, tabs, order, groupTitle>>

\* a request of some invocation resolves
Steps ==
  \/ \E i \in 1..Len(invs) : GetLastFocusedResolved(i)
  \/ \E i \in 1..Len(invs) : QueryPinnedResolved(i)
  \/ \E i \in 1..Len(invs) : TabsMoveResolved(i)
  \/ \E i \in 1..Len(invs) : TabsGroupResolved(i)
  \/ \E i \in 1..Len(invs), t \in DOMAIN tabs : PinUpdateResolved(i, t)
  \/ \E i \in 1..Len(invs) : QueryGroupsResolved(i)
  \/ \E i \in 1..Len(invs) : GroupMoveResolved(i)
  \/ \E i \in 1..Len(invs) : QueryGroupTabsResolved(i)
  \/ \E i \in 1..Len(invs) : QueryUngroupedResolved(i)

Next == Click \/ Steps

Spec == Init /\ [][Next]_vars

SpecAddr == InitAddr /\ [][Next]_vars

\* one click, and the host may reject any request
NextReject ==
  \/ Len(invs) = 0 /\ Click
  \/ Steps
  \/ \E i \in 1..Len(invs) : RequestRejected(i)
  \/ \E i \in 1..Len(invs), t \in DOMAIN tabs : PinUpdateRejected(i, t)

SpecReject == Init /\ [][NextReject]_vars

\* the icon may be clicked at any time; windows of fewer than MaxTabs tabs
NextOverlap == ClickAnyTime \/ Steps

InitOverlap ==
  InitWith(WindowAddresses,
           [n \in 1..MaxTabs |-> IF n < MaxTabs THEN Layouts(n) ELSE {}])

SpecOverlap == InitOverlap /\ [][NextOverlap]_vars

(***************************************************************************)
(* The properties.  An invocation has completed when its pc is "done"; the *)
(* window is as that invocation left it while it is the latest one.        *)
(***************************************************************************)
Completed == Len(invs) > 0 /\ invs[Len(invs)].pc = "done"

Latest == invs[Len(invs)]

\* a.localeCompare(b), for the strings the program compares
Compare(a, b) == Collation[a][b]

Left(o, s, t) == IndexOf(o, s) < IndexOf(o, t)

Loose(tb, t) == ~tb[t].pinned /\ tb[t].groupId = NoGroup

\* both tabs pinned, both in one group, or both unpinned and ungrouped
SameScope(tb, s, t) ==
  /\ tb[s].pinned = tb[t].pinned
  /\ tb[s].groupId = tb[t].groupId

\* the invocations that have issued a move request
Requests == {i \in 1..Len(invs) : invs[i].req.tabIds # <<>>}

\* C1: after sortAllTabs has completed, every pinned tab is left of every
\* tab that is not pinned, and every tab of a group is left of every tab
\* that is unpinned and ungrouped.
C1_Layout ==
  Completed =>
    \A s, t \in DOMAIN tabs :
      /\ (tabs[s].pinned /\ ~tabs[t].pinned) => Left(order, s, t)
      /\ (tabs[s].groupId # NoGroup /\ Loose(tabs, t)) => Left(order, s, t)

\* a completed run of a window that had a pinned tab and an ungrouped tab
\* left of a grouped one
C1_Witness ==
  /\ Completed
  /\ \E p, s, t \in DOMAIN tabs :
       /\ tabs[p].pinned
       /\ tabs[s].groupId # NoGroup
       /\ Loose(tabs, t)
       /\ Left(Latest.startOrder, t, s)

\* C2: after sortAllTabs has completed, of two groups with different titles
\* every tab of the one whose title collates later is left of every tab of
\* the other.
C2_GroupsTitleDescending ==
  Completed =>
    \A s, t \in DOMAIN tabs :
      (/\ tabs[s].groupId # NoGroup
       /\ tabs[t].groupId # NoGroup
       /\ Compare(groupTitle[tabs[s].groupId],
                        groupTitle[tabs[t].groupId]) > 0) => Left(order, s, t)

\* a completed run that brought the group with the later title, which was
\* on the right, to the left
C2_Witness ==
  /\ Completed
  /\ \E s, t \in DOMAIN tabs :
       /\ tabs[s].groupId # NoGroup
       /\ tabs[t].groupId # NoGroup
       /\ Compare(groupTitle[tabs[s].groupId],
                        groupTitle[tabs[t].groupId]) > 0
       /\ Left(Latest.startOrder, t, s)
       /\ Left(order, s, t)

\* the order of a move request is ascending by bucket key, then by sort key
RequestAscending(ids) ==
  \A j, k \in 1..Len(ids) :
    j < k =>
      /\ BucketOf(variant, tabs[ids[j]]) # BucketOf(variant, tabs[ids[k]]) =>
            Compare(BucketOf(variant, tabs[ids[j]]),
                          BucketOf(variant, tabs[ids[k]])) < 0
      /\ (/\ BucketOf(variant, tabs[ids[j]]) = BucketOf(variant, tabs[ids[k]])
          /\ KeyOf(variant, tabs[ids[j]]) # KeyOf(variant, tabs[ids[k]])) =>
            Compare(KeyOf(variant, tabs[ids[j]]),
                          KeyOf(variant, tabs[ids[k]])) < 0

\* C3: in every scope the order that sortTabsScope requests is ascending by
\* bucket key and, among tabs of one bucket key, ascending by sort key.
C3_RequestAscending ==
  \A i \in Requests : RequestAscending(invs[i].req.ids)

\* a request that reorders its tabs, two of them of different bucket keys
\* and two of one bucket key and different sort keys
C3_Witness ==
  \E i \in Requests :
    /\ invs[i].req.ids # invs[i].req.tabIds
    /\ \E j, k \in 1..Len(invs[i].req.tabIds) :
         /\ j < k
         /\ BucketOf(variant, tabs[invs[i].req.tabIds[j]])
              # BucketOf(variant, tabs[invs[i].req.tabIds[k]])
    /\ \E j, k \in 1..Len(invs[i].req.tabIds) :
         /\ j < k
         /\ BucketOf(variant, tabs[invs[i].req.tabIds[j]])
              = BucketOf(variant, tabs[invs[i].req.tabIds[k]])
         /\ Compare(KeyOf(variant, tabs[invs[i].req.tabIds[j]]),
                          KeyOf(variant, tabs[invs[i].req.tabIds[k]])) > 0

\* C4: after sortAllTabs has completed, of two tabs of one scope with equal
\* bucket keys and equal sort keys the one that was at the lower position
\* before the operation is left of the other.
C4_Stable ==
  Completed =>
    \A s, t \in DOMAIN tabs :
      (/\ SameScope(Latest.startTabs, s, t)
       /\ BucketOf(variant, tabs[s]) = BucketOf(variant, tabs[t])
       /\ KeyOf(variant, tabs[s]) = KeyOf(variant, tabs[t])
       /\ Left(Latest.startOrder, s, t)) => Left(order, s, t)

\* a completed run that changed the order of a scope holding two tabs of
\* equal keys
C4_Witness ==
  /\ Completed
  /\ order # Latest.startOrder
  /\ \E s, t \in DOMAIN tabs :
       /\ SameScope(Latest.startTabs, s, t)
       /\ KeyOf(variant, tabs[s]) = KeyOf(variant, tabs[t])
       /\ Left(Latest.startOrder, s, t)
       /\ \E u \in DOMAIN tabs :
            /\ SameScope(Latest.startTabs, s, u)
            /\ Left(Latest.startOrder, s, u)
            /\ Left(order, u, s)


\* C5: when sortAllTabs has completed and is run a second time with no
\* other change to the window, every tab is after the second run where it
\* was after the first.
C5_Idempotent ==
  (Len(invs) = 2 /\ invs[1].pc = "done" /\ invs[2].pc = "done") =>
     invs[2].endOrder = invs[1].endOrder

\* two completed runs, the first of which changed the order of the window
C5_Witness ==
  /\ Len(invs) = 2
  /\ invs[1].pc = "done"
  /\ invs[2].pc = "done"
  /\ invs[1].endOrder # invs[1].startOrder
  /\ invs[2].endOrder = order

\* C6: after sortAllTabs has completed, every tab has the group identity
\* (a group or none) that it had before the operation.
C6_MembershipPreserved ==
  Completed =>
    \A t \in DOMAIN tabs : tabs[t].groupId = Latest.startTabs[t].groupId

\* a completed run in which a tab that a move had left outside its group
\* was put back by chrome.tabs.group
C6_Witness ==
  /\ Completed
  /\ Latest.regrouped
  /\ order # Latest.startOrder

\* C7: a tab that was pinned before the operation stays pinned, and a tab
\* that was not pinned is never sent a pin request and never becomes pinned.
C7_PinnedPreserved ==
  \A i \in 1..Len(invs) :
    \A t \in DOMAIN tabs :
      /\ invs[i].startTabs[t].pinned => tabs[t].pinned
      /\ ~invs[i].startTabs[t].pinned => (t \notin invs[i].pinReqs /\ ~tabs[t].pinned)

\* a completed run that sent pin requests in a window that also has a tab
\* that is not pinned
C7_Witness ==
  /\ Completed
  /\ Latest.pinReqs # {}
  /\ \E t \in DOMAIN tabs : ~tabs[t].pinned /\ t \in Latest.moved

\* ids lists every element of tabIds once and nothing else
IsPermutation(ids, tabIds) ==
  /\ Len(ids) = Len(tabIds)
  /\ IdSet(ids) = IdSet(tabIds)
  /\ \A j, k \in 1..Len(ids) : ids[j] = ids[k] => j = k

\* C8: in every scope the ids that sortTabsScope passes to chrome.tabs.move
\* are a permutation of the ids of the tabs it was given.
C8_RequestPermutation ==
  \A i \in Requests : IsPermutation(invs[i].req.ids, invs[i].req.tabIds)

\* a request for three tabs in another order than they were given
C8_Witness ==
  \E i \in Requests :
    /\ Len(invs[i].req.tabIds) = MaxTabs
    /\ invs[i].req.ids # invs[i].req.tabIds

\* the tab's address is one that new URL(...) rejects
Unparseable(t) == ~NewURL[RawAddress(tabs[t])].ok

\* C9: an address that cannot be parsed as a URL never aborts the
\* operation: every invocation that ends has returned, having issued the
\* moves of its scopes, and every tab with such an address, whatever its
\* prefix, went into its scope's move with the bucket key "invalid".
C9_UnparseableNeverAborts ==
  \A i \in 1..Len(invs) :
    Finished(invs[i]) =>
      /\ invs[i].pc = "done"
      /\ \A t \in invs[i].moved :
           Unparseable(t) => BucketOf(variant, tabs[t]) = "invalid"

\* the bucket keys of the tabs strictly between places j and k of ids
BucketsBetween(ids, j, k) ==
  {BucketOf(variant, tabs[ids[m]]) :
     m \in {n \in 1..Len(ids) : (j < n /\ n < k) \/ (k < n /\ n < j)}}

\* C10: a tab at chrome://settings and a tab at about:blank both get the
\* bucket key "internal", and in a request that holds both no tab of another
\* bucket key is between them.
C10_InternalPagesTogether ==
  \A i \in Requests :
    \A j, k \in 1..Len(invs[i].req.ids) :
      (/\ RawAddress(tabs[invs[i].req.ids[j]]) = "chrome://settings"
       /\ RawAddress(tabs[invs[i].req.ids[k]]) = "about:blank") =>
         /\ BucketOf(variant, tabs[invs[i].req.ids[j]]) = "internal"
         /\ BucketOf(variant, tabs[invs[i].req.ids[k]]) = "internal"
         /\ BucketsBetween(invs[i].req.ids, j, k) \subseteq {"internal"}

\* the place of an address in the expected order of the scenario
ScenarioRank(raw) ==
  IF raw = "https://www.example.com/a" THEN 1
  ELSE IF raw = "HTTPS://WWW.Example.COM/a?q#f" THEN 2
  ELSE IF raw = "https://example.com/b" THEN 3
  ELSE IF raw = "https://other.com/x" THEN 4
  ELSE 0

ScenarioBucket(raw) ==
  IF raw = "https://other.com/x" THEN "other.com" ELSE "example.com"

\* C11: http and https addresses whose hosts differ only by a leading
\* "www." or by letter case get one bucket key, the host in lower case
\* without "www.", and are ordered by path, query and fragment: in every
\* request https://www.example.com/a, HTTPS://WWW.Example.COM/a?q#f and
\* https://example.com/b have the bucket key "example.com" and come in that
\* order, before https://other.com/x of bucket key "other.com".
C11_WwwAndCase ==
  \A i \in Requests :
    \A j, k \in 1..Len(invs[i].req.ids) :
      (/\ j < k
       /\ ScenarioRank(RawAddress(tabs[invs[i].req.ids[j]])) # 0
       /\ ScenarioRank(RawAddress(tabs[invs[i].req.ids[k]])) # 0) =>
         /\ BucketOf(variant, tabs[invs[i].req.ids[j]])
              = ScenarioBucket(RawAddress(tabs[invs[i].req.ids[j]]))
         /\ BucketOf(variant, tabs[invs[i].req.ids[k]])
              = ScenarioBucket(RawAddress(tabs[invs[i].req.ids[k]]))
         /\ ScenarioRank(RawAddress(tabs[invs[i].req.ids[j]]))
              <= ScenarioRank(RawAddress(tabs[invs[i].req.ids[k]]))

\* a request for the scenario's three tabs, given as other.com/x,
\* example.com/b, www.example.com/a
C11_Witness ==
  \E i \in Requests :
    /\ Len(invs[i].req.tabIds) = 3
    /\ RawAddress(tabs[invs[i].req.tabIds[1]]) = "https://other.com/x"
    /\ RawAddress(tabs[invs[i].req.tabIds[2]]) = "https://example.com/b"
    /\ RawAddress(tabs[invs[i].req.tabIds[3]]) = "https://www.example.com/a"
    /\ invs[i].req.ids = <<invs[i].req.tabIds[3], invs[i].req.tabIds[2],
                            invs[i].req.tabIds[1]>>

\* once a request of invocation i has been rejected, the invocation issues
\* no request and the window keeps its order and its groups
StaysRejected(i) ==
  invs[i].pc = "rejected" =>
    /\ invs'[i].pc = "rejected"
    /\ invs'[i].log = invs[i].log
    /\ order' = order
    /\ \A t \in DOMAIN tabs : tabs'[t].groupId = tabs[t].groupId

\* C12: when a host request is rejected, the failure is logged by the catch
\* of the click listener, the invocation issues no further request, and
\* nothing is undone: the window stays as the moves already applied left it.
C12_RejectionStops ==
  /\ [](\A i \in 1..Len(invs) : invs[i].pc = "rejected" => invs[i].logged)
  /\ [][\A i \in 1..Len(invs) : StaysRejected(i)]_vars

\* the move of the ungrouped tabs was rejected after earlier moves had
\* changed the order of the window
C12_Witness ==
  \E i \in 1..Len(invs) :
    /\ invs[i].pc = "rejected"
    /\ invs[i].log[Len(invs[i].log)] = Request("tabs.move", "ungrouped", NoGroup)
    /\ invs[i].settled = Len(invs[i].log)
    /\ order # invs[i].startOrder

\* the requests of an invocation that have not settled: serial requests
\* settle in the order they were issued, and pin requests are the only ones
\* issued while others are outstanding
OutstandingRequests(r) == SubSeq(r.log, r.settled + 1, Len(r.log))

SerialKinds == {"tabs.move", "tabGroups.move", "tabs.group"}

ScopeRank(scope) ==
  IF scope = "pinned" THEN 1 ELSE IF scope = "group" THEN 2
  ELSE IF scope = "ungrouped" THEN 3 ELSE 0

\* entry q of a log may come before entry p: scopes in the order pinned,
\* groups, ungrouped, and groups in descending title order
MayPrecede(q, p) ==
  \/ ScopeRank(q.scope) = 0
  \/ ScopeRank(p.scope) = 0
  \/ ScopeRank(q.scope) < ScopeRank(p.scope)
  \/ /\ q.scope = p.scope
     /\ q.scope = "group" => Compare(groupTitle[q.arg], groupTitle[p.arg]) >= 0

\* the requests of a group begin with its tabGroups.move, issued once
GroupsInTurn(log) ==
  /\ \A j \in 1..(Len(log) - 1) :
       (/\ log[j].scope = "group"
        /\ log[j + 1].scope = "group"
        /\ log[j].arg # log[j + 1].arg) => log[j + 1].kind = "tabGroups.move"
  /\ \A j, k \in 1..Len(log) :
       (/\ j < k
        /\ log[j].kind = "tabGroups.move"
        /\ log[k].kind = "tabGroups.move") => log[j].arg # log[k].arg

\* the ungrouped tabs are queried after every group has been moved
GroupsBeforeUngrouped(log) ==
  (\E k \in 1..Len(log) : log[k].scope = "ungrouped") =>
     \A g \in DOMAIN groupTitle :
       \E j \in 1..Len(log) : log[j] = Request("tabGroups.move", "group", g)

\* C13: within one invocation the scopes are processed one after another,
\* pinned, then the groups in descending title order, then ungrouped, and a
\* tab move, group move or group-assign request is outstanding only alone.
C13_ScopesInSequence ==
  \A i \in 1..Len(invs) :
    /\ \A j, k \in 1..Len(invs[i].log) :
         j < k => MayPrecede(invs[i].log[j], invs[i].log[k])
    /\ GroupsInTurn(invs[i].log)
    /\ GroupsBeforeUngrouped(invs[i].log)
    /\ \A k \in 1..Len(OutstandingRequests(invs[i])) :
         OutstandingRequests(invs[i])[k].kind \in SerialKinds =>
           Len(OutstandingRequests(invs[i])) = 1

\* a completed run that moved the pinned tabs, a group and the ungrouped
\* tabs
C13_Witness ==
  /\ Completed
  /\ \E g \in DOMAIN groupTitle :
       /\ \E k \in 1..Len(Latest.log) :
            Latest.log[k] = Request("tabs.move", "pinned", NoGroup)
       /\ \E k \in 1..Len(Latest.log) :
            Latest.log[k] = Request("tabs.group", "group", g)
       /\ Latest.log[Len(Latest.log)] = Request("tabs.move", "ungrouped", NoGroup)

\* the places of the pin requests in the log of r
PinPlaces(r) == {k \in 1..Len(r.log) : r.log[k].kind = "tabs.update"}

\* the pin requests are the block of the log that follows place m, one for
\* each pinned tab, issued when the request at m had resolved, and nothing
\* follows the block while one of them is pending
PinBlock(r, m) ==
  /\ PinPlaces(r) = (m + 1)..(m + Len(r.pinnedTabs))
  /\ \A k \in 1..Len(r.pinnedTabs) :
       r.log[m + k] = Request("tabs.update", "pinned", r.pinnedTabs[k])
  /\ r.settled >= m
  /\ Len(r.log) > m + Len(r.pinnedTabs) =>
       (r.pendingPins = {} /\ r.settled >= m + Len(r.pinnedTabs))

\* C14: the pin requests of all pinned tabs are issued together when the
\* move of the pinned scope has resolved, and the tab-group query and every
\* later request are issued only when all of them have completed.
C14_PinsTogether ==
  \A i \in 1..Len(invs) :
    /\ PinPlaces(invs[i]) # {} =>
         \E m \in 1..Len(invs[i].log) :
           /\ invs[i].log[m] = Request("tabs.move", "pinned", NoGroup)
           /\ PinBlock(invs[i], m)
    /\ (/\ invs[i].pinnedTabs # <<>>
        /\ \E k \in 1..Len(invs[i].log) : invs[i].log[k].kind = "tabGroups.query")
         => PinPlaces(invs[i]) # {}

\* of the pin requests of two pinned tabs the second has completed and the
\* first is still pending
C14_Witness ==
  \E i \in 1..Len(invs) :
    /\ invs[i].pc = "pinUpdate"
    /\ Len(invs[i].pinnedTabs) >= 2
    /\ invs[i].pendingPins = {invs[i].pinnedTabs[1]}


\* invocations between their first host request and their completion or
\* failure
InFlight == {i \in 1..Len(invs) : ~Finished(invs[i])}

\* C15: at every moment at most one invocation is between its first host
\* request and its completion or failure, also when the icon is clicked
\* again while an earlier invocation is suspended on a host request.
C15_OneInvocationAtATime == Cardinality(InFlight) <= 1


\* the groups an invocation has still to process, the one whose move is
\* requested included
GroupsAhead(r) == {r.groupsLeft[k].id : k \in 1..Len(r.groupsLeft)}

\* the pinned tabs and the tabs of the groups already processed
Placed(r) ==
  {t \in DOMAIN tabs :
     \/ tabs[t].pinned
     \/ tabs[t].groupId # NoGroup /\ tabs[t].groupId \notin GroupsAhead(r)}

PositionsOf(o, S) == {IndexOf(o, t) : t \in S}

\* C16: each time a group move is requested, nextPosition is the number of
\* pinned tabs plus the number of tabs of the groups already processed, and
\* those tabs occupy exactly the positions 0 .. nextPosition-1.
C16_CursorInvariant ==
  \A i \in 1..Len(invs) :
    invs[i].pc = "groupMove" =>
      /\ invs[i].nextPosition = Cardinality(Placed(invs[i]))
      /\ Cardinality({t \in DOMAIN tabs : tabs[t].pinned})
           = Len(invs[i].pinnedTabs)
      /\ PositionsOf(order, Placed(invs[i])) = 0..(invs[i].nextPosition - 1)

\* the move of a second group is requested in a window with a pinned tab
C16_Witness ==
  \E i \in 1..Len(invs) :
    /\ invs[i].pc = "groupMove"
    /\ Len(invs[i].pinnedTabs) > 0
    /\ invs[i].nextPosition > Len(invs[i].pinnedTabs)
    /\ Len(invs[i].groupsLeft) < Cardinality(DOMAIN groupTitle)


\* the chrome.tabs.move of invocation i, for a group or the ungrouped tabs,
\* resolves in this step
ScopeMoveResolves(i) ==
  /\ invs[i].pc = "tabsMove"
  /\ invs[i].scope \in {"group", "ungrouped"}
  /\ invs'[i].pc # "tabsMove"

\* the request starts at the leftmost position of its tabs; the other tabs
\* stay where they are and the scope keeps its positions
ScopeFrame(r) ==
  /\ r.req.index \in PositionsOf(order, IdSet(r.req.ids))
  /\ \A p \in PositionsOf(order, IdSet(r.req.ids)) : r.req.index <= p
  /\ \A t \in DOMAIN tabs \ IdSet(r.req.ids) :
       IndexOf(order', t) = IndexOf(order, t)
  /\ PositionsOf(order', IdSet(r.req.ids)) = PositionsOf(order, IdSet(r.req.ids))

\* C17: when a group's tabs or the ungrouped tabs are sorted with the start
\* position minIndex, the scope's move leaves every tab outside the scope at
\* its position, and the scope's tabs occupy the same set of positions.
C17_ScopeFrame ==
  [][\A i \in 1..Len(invs) : ScopeMoveResolves(i) => ScopeFrame(invs[i])]_vars

\* the move of a group or of the ungrouped tabs has resolved; it changed
\* the order of the scope and the window has tabs outside the scope
C17_Witness ==
  \E i \in 1..Len(invs) :
    /\ invs[i].scope \in {"group", "ungrouped"}
    /\ invs[i].pc \in {"tabsGroup", "done"}
    /\ invs[i].req.ids # invs[i].req.tabIds
    /\ Len(invs[i].req.ids) < Len(order)
    /\ invs[i].req.index > 0

=============================================================================
